---- MODULE Spec2Model ----
(***************************************************************************)
(* A model of the n8n nodes of n8n-nodes-numeriquai:                       *)
(*   - the deep merge of the items of several input connections            *)
(*     (Numeriquai "flatMerge" and the MergeInputs node),                  *)
(*   - the rule evaluation request (Numeriquai "evaluateRules" and the     *)
(*     ProcessApplication node).                                           *)
(* JSON values are tagged records; JavaScript strings are sequences of     *)
(* lexemes (JSON text) or of message fragments (error messages).           *)
(* Property names range over ordinary names: names that shadow a member    *)
(* of Object.prototype are outside the model.                              *)
(***************************************************************************)
EXTENDS Integers, Sequences, FiniteSets, TLC

VARIABLES
    node,           \* the entry point the host invokes
    pc,             \* where the invocation stands: start, awaitHealth, awaitPost, done
    operation,      \* parameter "operation" of the Numeriquai node
    numberOfInputs, \* parameter "numberOfInputs" of the merge entry points
    inputData,      \* inputData[i]: the items of input connection i-1
    continueOnFail, \* the host's continue-on-fail flag
    guidelineId,    \* parameter "guidelineId"
    credentials,    \* what getCredentials('numeriquaiApi') resolves to
    authToken,      \* parameter "authToken" of ProcessApplication
    requests,       \* the outbound requests issued so far, in order
    health,         \* the outcome of the connectivity GET: none, ok, failed
    reply,          \* the outcome of the audit POST, once it has settled
    returnData,     \* the items the invocation returns
    thrown,         \* the error the invocation throws to the host
    logs,           \* the console lines that carry a URL, a header or an error
    heap,           \* the objects and arrays in memory, by address (mutation check)
    target,         \* deepMerge's first argument (pure-function check)
    source,         \* deepMerge's second argument (pure-function check)
    output          \* deepMerge's result (pure-function check)

vars == <<node, pc, operation, numberOfInputs, inputData, continueOnFail,
          guidelineId, credentials, authToken, requests, health, reply, returnData,
          thrown, logs, heap, target, source, output>>

(***************************************************************************)
(* Bounds of the model.                                                    *)
(***************************************************************************)
\* the most items the input connections of a merge hold together
MaxItems == 2
\* the longest JSON text (in lexemes) a string value of an item holds
MaxStrLen == 6
\* the most items the input of an evaluate invocation holds
MaxEvalItems == 2

(***************************************************************************)
(* JSON values.                                                            *)
(***************************************************************************)
Undefined == [t |-> "undefined"]
Null == [t |-> "null"]
Bool(b) == [t |-> "bool", b |-> b]
Num(n) == [t |-> "num", n |-> n]
Str(s) == [t |-> "str", s |-> s]
Arr(a) == [t |-> "arr", a |-> a]
Obj(o) == [t |-> "obj", o |-> o]

NoProps == [k \in {} |-> Null]
Prop(k, v) == [x \in {k} |-> v]

\* typeof v === 'object' && v !== null && !Array.isArray(v)
IsPlainObject(v) == v.t = "obj"

(***************************************************************************)
(* JSON text.  A string is a sequence of lexemes: "{", "}", " ", the digit *)
(* "1" and KeyA, the four characters "a": (a member name and its colon).   *)
(***************************************************************************)
KeyA == "\"a\":"
Lexemes == {"{", "}", " ", "1", KeyA}

\* further lexemes of the JSON text of a response body: the member names
\* "detail": and "data": and the string literals
KeyDetail == "\"detail\":"
KeyData == "\"data\":"
KeyLexemes == {KeyA, KeyDetail, KeyData}
KeyName(x) == IF x = KeyA THEN "a" ELSE IF x = KeyDetail THEN "detail" ELSE "data"
LitBodyDetail == "\"bad guideline\""
LitNestedDetail == "\"unknown guideline\""
LitEmpty == "\"\""
StringLiterals == {LitBodyDetail, LitNestedDetail, LitEmpty}
LitValue(x) ==
    IF x = LitBodyDetail THEN <<"bad guideline">>
    ELSE IF x = LitNestedDetail THEN <<"unknown guideline">>
    ELSE <<>>

\* the characters of a lexeme of Lexemes
LexemeChars(x) == IF x = KeyA THEN <<"\"", "a", "\"", ":">> ELSE <<x>>

RECURSIVE Chars(_)
Chars(s) == IF s = <<>> THEN <<>> ELSE LexemeChars(Head(s)) \o Chars(Tail(s))

RECURSIVE SkipWs(_, _)
SkipWs(s, i) == IF i <= Len(s) /\ s[i] = " " THEN SkipWs(s, i + 1) ELSE i

RECURSIVE Digits(_, _)
Digits(s, i) == IF i <= Len(s) /\ s[i] = "1" THEN 1 + Digits(s, i + 1) ELSE 0

\* the number written as n digits 1
RECURSIVE Ones(_)
Ones(n) == IF n = 0 THEN 0 ELSE 10 * Ones(n - 1) + 1

ParseFail == [ok |-> FALSE, val |-> Undefined, next |-> 0]
ParseOk(v, n) == [ok |-> TRUE, val |-> v, next |-> n]

\* one JSON value starting at position i of s
RECURSIVE ParseValue(_, _)
ParseValue(s, i) ==
    IF i > Len(s) THEN ParseFail
    ELSE IF s[i] = "1" THEN ParseOk(Num(Ones(Digits(s, i))), i + Digits(s, i))
    ELSE IF s[i] \in StringLiterals THEN ParseOk(Str(LitValue(s[i])), i + 1)
    ELSE IF s[i] = "{" THEN
        LET j == SkipWs(s, i + 1) IN
        IF j > Len(s) THEN ParseFail
        ELSE IF s[j] = "}" THEN ParseOk(Obj(NoProps), j + 1)
        ELSE IF s[j] \in KeyLexemes THEN
            LET v == ParseValue(s, SkipWs(s, j + 1)) IN
            IF ~v.ok THEN ParseFail
            ELSE LET k == SkipWs(s, v.next) IN
                 IF k <= Len(s) /\ s[k] = "}"
                 THEN ParseOk(Obj(Prop(KeyName(s[j]), v.val)), k + 1)
                 ELSE ParseFail
        ELSE ParseFail
    ELSE ParseFail

\* JSON.parse(s): ok is FALSE where JSON.parse throws a SyntaxError
JSONparse(s) ==
    LET v == ParseValue(s, SkipWs(s, 1)) IN
    IF v.ok /\ SkipWs(s, v.next) > Len(s) THEN v ELSE ParseFail

\* String.prototype.trim
RECURSIVE TrimLeft(_)
TrimLeft(s) == IF s # <<>> /\ Head(s) = " " THEN TrimLeft(Tail(s)) ELSE s

RECURSIVE TrimRight(_)
TrimRight(s) ==
    IF s # <<>> /\ s[Len(s)] = " " THEN TrimRight(SubSeq(s, 1, Len(s) - 1)) ELSE s

Trim(s) == TrimRight(TrimLeft(s))

\* s.startsWith('{{') && s.endsWith('}}')
DoubleBraced(s) ==
    /\ Len(s) >= 2
    /\ s[1] = "{" /\ s[2] = "{"
    /\ s[Len(s) - 1] = "}" /\ s[Len(s)] = "}"

\* s.slice(1, -1)
Slice1(s) == SubSeq(s, 2, Len(s) - 1)

safeParseJSON_noFallback(input) ==
    IF input.t # "str" THEN input
    ELSE LET cleanInput == Trim(input.s) IN
         IF JSONparse(cleanInput).ok THEN JSONparse(cleanInput).val
         ELSE input

safeParseJSON(input) ==
    IF input.t # "str" THEN input
    ELSE LET cleanInput == Trim(input.s) IN
         IF JSONparse(cleanInput).ok THEN JSONparse(cleanInput).val
         ELSE IF DoubleBraced(cleanInput) /\ JSONparse(Slice1(cleanInput)).ok
              THEN JSONparse(Slice1(cleanInput)).val
              ELSE input

(***************************************************************************)
(* Own enumerable properties: what { ...v } copies and for (key in v)      *)
(* visits.  An array and a string have their indices, a plain object its   *)
(* keys; null, undefined, a number and a boolean have none.                *)
(***************************************************************************)
IndexProps(seq) == [k \in {ToString(i - 1) : i \in 1..Len(seq)} |->
                        seq[CHOOSE i \in 1..Len(seq) : ToString(i - 1) = k]]

CharValues(s) == [i \in 1..Len(Chars(s)) |-> Str(<<Chars(s)[i]>>)]

OwnProps(v) ==
    IF v.t = "obj" THEN v.o
    ELSE IF v.t = "arr" THEN IndexProps(v.a)
    ELSE IF v.t = "str" THEN IndexProps(CharValues(v.s))
    ELSE NoProps

(***************************************************************************)
(* deepMerge, once per file that defines it.                               *)
(***************************************************************************)
deepMerge_shallow(tgt, src) ==
    LET t == OwnProps(tgt)
        s == OwnProps(src)
    IN  Obj([key \in DOMAIN t \cup DOMAIN s |->
                IF key \in DOMAIN s THEN s[key] ELSE t[key]])

RECURSIVE deepMerge(_, _)
deepMerge(tgt, src) ==
    LET t == OwnProps(tgt)
        s == OwnProps(src)
    IN  Obj([key \in DOMAIN t \cup DOMAIN s |->
                IF key \in DOMAIN s
                THEN IF /\ IsPlainObject(s[key])
                        /\ key \in DOMAIN t
                        /\ IsPlainObject(t[key])
                     THEN deepMerge(t[key], s[key])
                     ELSE s[key]
                ELSE t[key]])

RECURSIVE MergeInputs_deepMerge(_, _)
MergeInputs_deepMerge(tgt, src) ==
    LET t == OwnProps(tgt)
        s == OwnProps(src)
    IN  Obj([key \in DOMAIN t \cup DOMAIN s |->
                IF key \in DOMAIN s
                THEN IF /\ IsPlainObject(s[key])
                        /\ key \in DOMAIN t
                        /\ IsPlainObject(t[key])
                     THEN MergeInputs_deepMerge(t[key], s[key])
                     ELSE s[key]
                ELSE t[key]])

(***************************************************************************)
(* The merge entry points: Numeriquai "flatMerge" and MergeInputs.         *)
(***************************************************************************)
Item(json) == [json |-> json]

\* the program's choices for "numberOfInputs" the model draws from
NumberOfInputsOptions == {2, 3}

RECURSIVE CollectItems_skipsLast(_, _)
CollectItems_skipsLast(inp, n) ==
    IF n <= 1 THEN <<>> ELSE CollectItems_skipsLast(inp, n - 1) \o inp[n - 1]

\* for (inputIndex < numberOfInputs) allItems.push(...getInputData(inputIndex))
RECURSIVE CollectItems(_, _)
CollectItems(inp, n) ==
    IF n = 0 THEN <<>> ELSE CollectItems(inp, n - 1) \o inp[n]

\* itemJson = { ...item.json }; itemJson[key] = safeParseJSON(itemJson[key])
ParsedItemJson(json) ==
    Obj([key \in DOMAIN OwnProps(json) |-> safeParseJSON(OwnProps(json)[key])])

\* a fold that hands back the json of the last item as it is
FlatMergeFold_keepsLastJson(mergedInputs, items) ==
    IF items = <<>> THEN mergedInputs ELSE items[Len(items)].json

\* let mergedInputs = {}; for (item of allItems) mergedInputs = deepMerge(mergedInputs, itemJson)
RECURSIVE FlatMergeFold(_, _)
FlatMergeFold(mergedInputs, items) ==
    IF items = <<>> THEN mergedInputs
    ELSE FlatMergeFold(deepMerge(mergedInputs, ParsedItemJson(Head(items).json)),
                       Tail(items))

RECURSIVE MergeInputsFold(_, _)
MergeInputsFold(mergedInputs, items) ==
    IF items = <<>> THEN mergedInputs
    ELSE MergeInputsFold(MergeInputs_deepMerge(mergedInputs, Head(items).json),
                         Tail(items))

\* if (Array.isArray(mergedInputs)) mergedInputs = mergedInputs[0] or {}
NormalizeArray(mergedInputs) ==
    IF mergedInputs.t = "arr"
    THEN IF Len(mergedInputs.a) > 0 THEN mergedInputs.a[1] ELSE Obj(NoProps)
    ELSE mergedInputs

\* allItems.length > 0 ? allItems.map((_, index) => ({ item: index })) : [{ item: 0 }]
PairedItems(allItems) ==
    IF Len(allItems) > 0 THEN [i \in 1..Len(allItems) |-> i - 1] ELSE <<0>>

OutputItem(json, paired) == [json |-> json, pairedItem |-> paired]

executeFlatMerge(inp, n) ==
    LET allItems == CollectItems(inp, n) IN
    <<OutputItem(NormalizeArray(FlatMergeFold(Obj(NoProps), allItems)),
                 PairedItems(allItems))>>

MergeInputs_execute(inp, n) ==
    LET allItems == CollectItems(inp, n) IN
    <<OutputItem(NormalizeArray(MergeInputsFold(Obj(NoProps), allItems)),
                 PairedItems(allItems))>>

(***************************************************************************)
(* The merge in memory.  An object or an array is a cell of the heap and   *)
(* is held by reference; { ...v } allocates a cell, output[key] = v writes *)
(* one.  The two files' deepMerge are statement for statement the same.    *)
(***************************************************************************)
Ref(at) == [t |-> "ref", at |-> at]
IsRef(v) == v.t = "ref"
ObjCell(o) == [t |-> "obj", o |-> o]
ArrCell(a) == [t |-> "arr", a |-> a]

\* a new cell, and the reference to it
Allocated(h, cell) == [heap |-> Append(h, cell), val |-> Ref(Len(h) + 1)]

\* a JSON value laid out in memory
RECURSIVE Store(_, _)
RECURSIVE StoreProps(_, _, _, _)
RECURSIVE StoreElements(_, _, _)
Store(h, v) ==
    IF v.t = "obj"
    THEN LET r == StoreProps(h, v.o, DOMAIN v.o, NoProps)
         IN  Allocated(r.heap, ObjCell(r.props))
    ELSE IF v.t = "arr"
    THEN LET r == StoreElements(h, v.a, <<>>)
         IN  Allocated(r.heap, ArrCell(r.elements))
    ELSE [heap |-> h, val |-> v]

StoreProps(h, o, keys, stored) ==
    IF keys = {} THEN [heap |-> h, props |-> stored]
    ELSE LET key == CHOOSE k \in keys : TRUE
             r == Store(h, o[key])
         IN  StoreProps(r.heap, o, keys \ {key}, (key :> r.val) @@ stored)

StoreElements(h, a, stored) ==
    IF a = <<>> THEN [heap |-> h, elements |-> stored]
    ELSE LET r == Store(h, Head(a))
         IN  StoreElements(r.heap, Tail(a), Append(stored, r.val))

\* the JSON value a value of the heap stands for
RECURSIVE Load(_, _)
Load(h, v) ==
    IF ~IsRef(v) THEN v
    ELSE IF h[v.at].t = "obj"
    THEN Obj([key \in DOMAIN h[v.at].o |-> Load(h, h[v.at].o[key])])
    ELSE Arr([i \in 1..Len(h[v.at].a) |-> Load(h, h[v.at].a[i])])

\* typeof v === 'object' && v !== null && !Array.isArray(v)
HeapIsPlainObject(h, v) == IsRef(v) /\ h[v.at].t = "obj"

HeapOwnProps(h, v) ==
    IF IsRef(v)
    THEN IF h[v.at].t = "obj" THEN h[v.at].o ELSE IndexProps(h[v.at].a)
    ELSE IF v.t = "str" THEN IndexProps(CharValues(v.s))
    ELSE NoProps

\* object[key] = value
Assign(h, object, key, value) ==
    [h EXCEPT ![object.at] = ObjCell((key :> value) @@ h[object.at].o)]

\* the object itself in place of a copy of it
Spread_alias(h, v) ==
    IF HeapIsPlainObject(h, v) THEN [heap |-> h, val |-> v]
    ELSE Allocated(h, ObjCell(HeapOwnProps(h, v)))

\* { ...v }
Spread(h, v) == Allocated(h, ObjCell(HeapOwnProps(h, v)))

RECURSIVE Heap_deepMerge(_, _, _)
RECURSIVE Heap_deepMergeKeys(_, _, _, _, _)
Heap_deepMerge(h, tgt, src) ==
    LET output_ == Spread(h, tgt)
    IN  Heap_deepMergeKeys(output_.heap, output_.val, tgt, src,
                           DOMAIN HeapOwnProps(h, src))

\* the body of for (const key in source), for the keys still to visit
Heap_deepMergeKeys(h, out, tgt, src, keys) ==
    IF keys = {} THEN [heap |-> h, val |-> out]
    ELSE LET key == CHOOSE k \in keys : TRUE
             sourceValue == HeapOwnProps(h, src)[key]
             targetValue == IF key \in DOMAIN HeapOwnProps(h, tgt)
                            THEN HeapOwnProps(h, tgt)[key] ELSE Undefined
             merged == Heap_deepMerge(h, targetValue, sourceValue)
             written == IF /\ HeapIsPlainObject(h, sourceValue)
                           /\ HeapIsPlainObject(h, targetValue)
                        THEN Assign(merged.heap, out, key, merged.val)
                        ELSE Assign(h, out, key, sourceValue)
         IN  Heap_deepMergeKeys(written, out, tgt, src, keys \ {key})

\* for (const key of Object.keys(itemJson)) itemJson[key] = safeParseJSON(itemJson[key])
RECURSIVE Heap_parseValues(_, _, _)
Heap_parseValues(h, itemJson, keys) ==
    IF keys = {} THEN h
    ELSE LET key == CHOOSE k \in keys : TRUE
             value == h[itemJson.at].o[key]
             parsed == IF IsRef(value) THEN [heap |-> h, val |-> value]
                       ELSE Store(h, safeParseJSON(value))
         IN  Heap_parseValues(Assign(parsed.heap, itemJson, key, parsed.val),
                              itemJson, keys \ {key})

RECURSIVE Heap_FlatMergeFold(_, _, _)
Heap_FlatMergeFold(h, mergedInputs, jsons) ==
    IF jsons = <<>> THEN [heap |-> h, val |-> mergedInputs]
    ELSE LET itemJson == Spread(h, Head(jsons))
             parsed == Heap_parseValues(itemJson.heap, itemJson.val,
                                        DOMAIN itemJson.heap[itemJson.val.at].o)
             merged == Heap_deepMerge(parsed, mergedInputs, itemJson.val)
         IN  Heap_FlatMergeFold(merged.heap, merged.val, Tail(jsons))

RECURSIVE Heap_MergeInputsFold(_, _, _)
Heap_MergeInputsFold(h, mergedInputs, jsons) ==
    IF jsons = <<>> THEN [heap |-> h, val |-> mergedInputs]
    ELSE LET merged == Heap_deepMerge(h, mergedInputs, Head(jsons))
         IN  Heap_MergeInputsFold(merged.heap, merged.val, Tail(jsons))

\* if (Array.isArray(mergedInputs)) mergedInputs = mergedInputs[0] or {}
Heap_NormalizeArray(r) ==
    IF IsRef(r.val) /\ r.heap[r.val.at].t = "arr"
    THEN IF Len(r.heap[r.val.at].a) > 0
         THEN [heap |-> r.heap, val |-> r.heap[r.val.at].a[1]]
         ELSE Allocated(r.heap, ObjCell(NoProps))
    ELSE r

\* the merge of executeFlatMerge on the json of the items, from mergedInputs = {}
Heap_executeFlatMerge(h, jsons) ==
    LET mergedInputs == Allocated(h, ObjCell(NoProps))
    IN  Heap_NormalizeArray(Heap_FlatMergeFold(mergedInputs.heap, mergedInputs.val, jsons))

Heap_MergeInputs_execute(h, jsons) ==
    LET mergedInputs == Allocated(h, ObjCell(NoProps))
    IN  Heap_NormalizeArray(Heap_MergeInputsFold(mergedInputs.heap, mergedInputs.val, jsons))

(***************************************************************************)
(* Errors.  A message is a sequence of fragments.                          *)
(***************************************************************************)
NotThrown == [type |-> "none", message |-> <<>>]
Throw(type, message) == [type |-> type, message |-> message]

\* property access that yields undefined where the holder has no such property
Get(v, key) == IF v.t = "obj" /\ key \in DOMAIN v.o THEN v.o[key] ELSE Undefined

\* JavaScript truthiness
Truthy(v) ==
    CASE v.t = "undefined" -> FALSE
      [] v.t = "null" -> FALSE
      [] v.t = "bool" -> v.b
      [] v.t = "num" -> v.n # 0
      [] v.t = "str" -> v.s # <<>>
      [] OTHER -> TRUE

\* a || b
OrElse(a, b) == IF Truthy(a) THEN a ELSE b

\* an Error object: its constructor's name, its message, its other properties
ErrorObject(name, message, props) ==
    Obj([key \in {"name", "message"} \cup DOMAIN props |->
            IF key = "name" THEN Str(<<name>>)
            ELSE IF key = "message" THEN Str(message)
            ELSE props[key]])

NodeOperationError(message) == ErrorObject("NodeOperationError", message, NoProps)

\* items[0].json of an empty item list
TypeErrorNoItem ==
    ErrorObject("TypeError",
                <<"Cannot read properties of undefined (reading 'json')">>, NoProps)

ErrName(error) == Get(error, "name").s[1]
ErrMessage(error) == Get(error, "message").s

(***************************************************************************)
(* The evaluate entry points: the request.                                 *)
(***************************************************************************)
NoCredentials == [present |-> FALSE, apiToken |-> <<>>, apiUrl |-> <<>>]
Credentials(apiToken, apiUrl) ==
    [present |-> TRUE, apiToken |-> apiToken, apiUrl |-> apiUrl]

DefaultApiUrl == <<"https://api.numeriquai.com">>
AuditsPath == <<"/api/v1", "/audits/">>

\* String.prototype.replace(pattern, by) with a string pattern: the first occurrence
RECURSIVE ReplaceFirst(_, _, _)
ReplaceFirst(s, pattern, by) ==
    IF s = <<>> THEN <<>>
    ELSE IF Head(s) = pattern THEN <<by>> \o Tail(s)
    ELSE <<Head(s)>> \o ReplaceFirst(Tail(s), pattern, by)

\* (credentials.apiUrl || 'https://api.numeriquai.com') + '/api/v1/audits/'
ApiEndpoint(cred) ==
    (IF cred.apiUrl # <<>> THEN cred.apiUrl ELSE DefaultApiUrl) \o AuditsPath

Ipv4Endpoint(apiEndpoint) == ReplaceFirst(apiEndpoint, "localhost", "127.0.0.1")

RequestBody(reference, description, gid, input) ==
    [reference |-> reference, description |-> description,
     guideline_id |-> gid, inputs |-> input]

NoBody == RequestBody(<<>>, "", "", Undefined)

Request(method, url, header, value, body, timeout) ==
    [method |-> method, url |-> url, header |-> header, value |-> value,
     body |-> body, timeout |-> timeout]

\* requestOptions of executeEvaluateRules
EvaluateRulesRequest(gid, cred, input) ==
    Request("POST", Ipv4Endpoint(ApiEndpoint(cred)), "X-API-Key", cred.apiToken,
            RequestBody(<<"Application run N8N guideline ", "HH:MM">>,
                        "N8N application run", gid, input),
            30000)

ProcessApplicationEndpoint == DefaultApiUrl \o AuditsPath

\* requestOptions of ProcessApplication.execute
ProcessApplicationRequest(gid, token, input) ==
    Request("POST", Ipv4Endpoint(ProcessApplicationEndpoint), "Authorization",
            <<"Bearer ">> \o token,
            RequestBody(<<"Test run N8N guidline ", "HH:MM">>, "N8N test", gid, input),
            30000)

\* ipv4Endpoint.replace('/audits/', '/health').replace('/audits', '/health')
HealthEndpoint(ipv4Endpoint) ==
    ReplaceFirst(ReplaceFirst(ipv4Endpoint, "/audits/", "/health"), "/audits", "/health")

HealthRequest ==
    Request("GET", HealthEndpoint(Ipv4Endpoint(ProcessApplicationEndpoint)),
            "none", <<>>, NoBody, 5000)

\* await this.helpers.httpRequest(...) / this.helpers.request(...): one request goes out
Send_twice(sent, request) == sent \o <<request, request>>

Send(sent, request) == Append(sent, request)

(***************************************************************************)
(* The evaluate entry points: validation and error handling.               *)
(***************************************************************************)
NoError == Undefined

EvaluateRulesValidation(gid, cred) ==
    IF ~cred.present THEN NodeOperationError(<<"Credentials are required">>)
    ELSE IF gid = "" THEN NodeOperationError(<<"Guideline ID is required">>)
    ELSE IF cred.apiToken = <<>> THEN NodeOperationError(<<"API Key is required">>)
    ELSE NoError

ProcessApplicationValidation(gid, token) ==
    IF gid = "" THEN NodeOperationError(<<"Guideline ID is required">>)
    ELSE IF token = <<>> THEN NodeOperationError(<<"Authentication token is required">>)
    ELSE IF ProcessApplicationEndpoint = <<>>
         THEN NodeOperationError(<<"API endpoint is required">>)
    ELSE NoError

\* body?.detail || body?.data?.detail
BodyDetail(body) == OrElse(Get(body, "detail"), Get(Get(body, "data"), "detail"))

ExtractDetail_claimedOrder(error) ==
    LET first == OrElse(Get(Get(error, "data"), "detail"),
                        Get(Get(Get(error, "response"), "data"), "detail"))
        rawBody == Get(Get(error, "response"), "body")
    IN  IF ~Truthy(first) /\ Truthy(rawBody)
        THEN IF rawBody.t = "str"
             THEN IF JSONparse(rawBody.s).ok
                  THEN BodyDetail(JSONparse(rawBody.s).val)
                  ELSE first
             ELSE BodyDetail(rawBody)
        ELSE first

\* the errorDetail of executeEvaluateRules' catch block
ExtractDetail(error) ==
    LET first == OrElse(Get(Get(error, "data"), "detail"),
                    OrElse(Get(Get(Get(error, "response"), "data"), "detail"),
                           Get(error, "detail")))
        rawBody == Get(Get(error, "response"), "body")
        second == IF ~Truthy(first) /\ Truthy(rawBody)
                  THEN IF rawBody.t = "str"
                       THEN IF JSONparse(rawBody.s).ok
                            THEN BodyDetail(JSONparse(rawBody.s).val)
                            ELSE first
                       ELSE BodyDetail(rawBody)
                  ELSE first
        responseData == Get(Get(error, "response"), "data")
    IN  IF ~Truthy(second) /\ Truthy(responseData)
        THEN Get(responseData, "detail")
        ELSE second

\* errorMessage, with ": " and the detail when there is one
ErrorMessage(error) ==
    IF Truthy(ExtractDetail(error))
    THEN ErrMessage(error) \o <<": ">> \o ExtractDetail(error).s
    ELSE ErrMessage(error)

Outcome(items, err) == [returnData |-> items, thrown |-> err]

EvaluateRulesErrorJson(error) ==
    Obj([key \in {"error", "errorType"}
                    \cup (IF Truthy(ExtractDetail(error)) THEN {"detail"} ELSE {}) |->
            IF key = "error" THEN Str(ErrorMessage(error))
            ELSE IF key = "errorType" THEN Str(<<ErrName(error)>>)
            ELSE ExtractDetail(error)])

\* the catch block of executeEvaluateRules
EvaluateRulesCatch(error, cof) ==
    IF cof
    THEN Outcome(<<OutputItem(EvaluateRulesErrorJson(error), <<0>>)>>, NotThrown)
    ELSE Outcome(<<>>, Throw("NodeOperationError",
                             <<"API request failed: ">> \o ErrorMessage(error)))

ProcessApplicationErrorJson(error) ==
    Obj([key \in {"error", "errorType", "errorCode", "errorStatus"} |->
            IF key = "error" THEN Str(ErrMessage(error))
            ELSE IF key = "errorType" THEN Str(<<ErrName(error)>>)
            ELSE IF key = "errorCode" THEN Get(error, "code")
            ELSE Get(error, "status")])

\* the catch block of ProcessApplication.execute
ProcessApplicationCatch(error, cof) ==
    IF cof
    THEN Outcome(<<OutputItem(ProcessApplicationErrorJson(error), <<0>>)>>, NotThrown)
    ELSE Outcome(<<>>, Throw("NodeOperationError",
                             <<"API request failed: ">> \o ErrMessage(error)))

\* the log of the response: Object.keys(responseData) throws on null
ResponseLogError(responseData) ==
    IF responseData.t = "null"
    THEN ErrorObject("TypeError", <<"Cannot convert undefined or null to object">>, NoProps)
    ELSE NoError

(***************************************************************************)
(* Console output.  The model keeps the lines that carry a URL, a request  *)
(* header or an error; lines of fixed text, of counts and of key names are *)
(* left out.  A line is the place that writes it and its text.             *)
(***************************************************************************)
LogLine(at, text) == [at |-> at, text |-> text]

\* String.prototype.substring(from, to) of a string no shorter than from
Substring(s, from, to) == SubSeq(s, from + 1, IF to < Len(s) THEN to ELSE Len(s))

\* authToken.substring(0, 10)
TokenPrefixLength == 10

\* the strings a value holds, one after the other (JSON.stringify, console's
\* inspection); the order of the properties is not recorded by the model
RECURSIVE StringsIn(_)
RECURSIVE StringsInProps(_, _)
RECURSIVE StringsInElements(_)
StringsIn(v) ==
    CASE v.t = "str" -> v.s
      [] v.t = "obj" -> StringsInProps(v.o, DOMAIN v.o)
      [] v.t = "arr" -> StringsInElements(v.a)
      [] OTHER -> <<>>

StringsInProps(o, keys) ==
    IF keys = {} THEN <<>>
    ELSE LET key == CHOOSE k \in keys : TRUE
         IN  <<key, ":">> \o StringsIn(o[key]) \o StringsInProps(o, keys \ {key})

StringsInElements(a) ==
    IF a = <<>> THEN <<>> ELSE StringsIn(Head(a)) \o StringsInElements(Tail(a))

\* the enumerable properties of an Error: all but its name and its message
EnumerableProps(error) ==
    Obj([key \in DOMAIN error.o \ {"name", "message"} |-> error.o[key]])

\* console.log of "Making request to" in executeEvaluateRules
EvaluateRulesRequestLogs(cred) ==
    <<LogLine("Numeriquai:316",
              <<"Making request to: ">> \o Ipv4Endpoint(ApiEndpoint(cred)))>>

\* the two lines that open the catch block of executeEvaluateRules
EvaluateRulesErrorLogs(error) ==
    <<LogLine("Numeriquai:332", <<ErrName(error), ": ">> \o ErrMessage(error)),
      LogLine("Numeriquai:337", StringsIn(EnumerableProps(error)))>>

\* console.log of the request and of its headers in ProcessApplication.execute,
\* and of the connectivity test
ProcessApplicationRequestLogs(token) ==
    <<LogLine("ProcessApplication:117",
              <<"Making request to: ">> \o Ipv4Endpoint(ProcessApplicationEndpoint)
                 \o <<" (converted from ">> \o ProcessApplicationEndpoint \o <<")">>),
      LogLine("ProcessApplication:118",
              <<"Authorization", ":", "Bearer ">>
                 \o Substring(token, 0, TokenPrefixLength) \o <<"...">>),
      LogLine("ProcessApplication:126",
              <<"Testing connectivity to ">>
                 \o HealthEndpoint(Ipv4Endpoint(ProcessApplicationEndpoint)))>>

HealthFailed == <<"connect ECONNREFUSED">>

\* console.log of the health check's response, console.warn of its failure
HealthLogs(outcome) ==
    IF outcome = "ok"
    THEN <<LogLine("ProcessApplication:132", <<"Health check response: ", "OK">>)>>
    ELSE <<LogLine("ProcessApplication:134", <<"Health check failed: ">> \o HealthFailed)>>

\* console.error that opens the catch block of ProcessApplication.execute
ProcessApplicationErrorLogs(error) ==
    <<LogLine("ProcessApplication:156",
              <<ErrName(error), ": ">> \o ErrMessage(error)
                 \o StringsIn(Get(error, "code")) \o StringsIn(Get(error, "status"))
                 \o StringsIn(Get(error, "response")))>>

(***************************************************************************)
(* The inputs the model draws from.                                        *)
(***************************************************************************)
SeqsUpTo(S, n) == UNION {[1..k -> S] : k \in 0..n}

\* the ways to spread the items of list over n input connections, in order
RECURSIVE Splits(_, _)
Splits(list, n) ==
    IF n = 1 THEN {<<list>>}
    ELSE UNION {{<<SubSeq(list, 1, c)>> \o rest :
                    rest \in Splits(SubSeq(list, c + 1, Len(list)), n - 1)} :
                c \in 0..Len(list)}

JsonText == SeqsUpTo(Lexemes, MaxStrLen)

TextObject == <<"{", KeyA, "1", "}">>
TextDoubleBraced == <<"{", "{", KeyA, "1", "}", "}">>

\* the json of the items of a merge: objects, and what is no object
MergeObjects ==
    { Obj(NoProps),
      Obj(Prop("a", Num(1))),
      Obj(Prop("b", Num(2))),
      Obj(Prop("a", Obj(Prop("a", Num(1))))),
      Obj(Prop("a", Obj(Prop("b", Num(2))))),
      Obj(Prop("a", Arr(<<Num(1)>>))),
      Obj(Prop("b", Str(TextObject))),
      Obj(Prop("a", Str(TextDoubleBraced))) }

MergeNonObjects ==
    { Null, Num(7), Bool(TRUE), Str(<<"1", "{">>), Str(<<>>), Arr(<<>>),
      Arr(<<Num(1), Obj(Prop("a", Num(1)))>>) }

MergeJson == MergeObjects \cup MergeNonObjects

MergeItemLists == SeqsUpTo({Item(j) : j \in MergeJson}, MaxItems)

\* the objects deepMerge is applied to: every object of depth two over two keys
\* and three leaves whose nested objects hold one key at most, and the chains
\* of depth three
Keys == {"a", "b"}
Leaves == {Null, Num(1), Arr(<<Num(2)>>)}
Single(V) == {Obj(NoProps)} \cup {Obj(Prop(k, v)) : k \in Keys, v \in V}
ObjectsOver(V) == UNION {{Obj(o) : o \in [K -> V]} : K \in SUBSET Keys}
DeepObjects == ObjectsOver(Leaves \cup Single(Leaves))
                  \cup Single(Single(Leaves \cup Single(Leaves)))

EvalJson == {Obj(NoProps), Obj(Prop("a", Num(1)))}
EvalItemLists == SeqsUpTo({Item(j) : j \in EvalJson}, MaxEvalItems)
EvalOperations == {"evaluateRules", "unknownOperation"}
GuidelineIds == {"", "guideline-123"}
\* no token, a token shorter than the logged prefix, a token longer than it
ShortToken == <<"s", "e", "c", "r", "e", "t">>
LongToken == <<"s", "e", "c", "r", "e", "t", "-", "t", "o", "k", "e", "n">>
Tokens == {<<>>, ShortToken, LongToken}
\* no URL, a custom URL, a URL on localhost, a URL that holds localhost twice
ApiUrls ==
    { <<>>,
      <<"https://api-saaf.numeriquai.com">>,
      <<"http://", "localhost", ":8000">>,
      <<"http://", "localhost", ":8000/", "localhost">> }
CredentialsPool == {NoCredentials} \cup {Credentials(t, u) : t \in Tokens, u \in ApiUrls}

\* the bodies of a 2xx response
Responses == {Obj(Prop("status", Str(<<"ok">>))), Arr(<<>>), Null}

\* the errors a request fails with
DetailA == Str(<<"detail of data">>)
DetailB == Str(<<"detail of response.data">>)
DetailE == Str(<<"detail of the error">>)
ErrorDataOptions == {Undefined, Obj(Prop("detail", DetailA)), Obj(Prop("detail", Str(<<>>)))}
ResponseDataOptions == {Undefined, Obj(Prop("detail", DetailB)), Obj(NoProps)}
ErrorDetailOptions == {Undefined, DetailE}
ResponseBodyOptions ==
    { Undefined,
      Str(<<"{">>),
      Str(<<"{", "}">>),
      Str(<<"{", KeyDetail, LitBodyDetail, "}">>),
      Str(<<"{", KeyDetail, LitEmpty, "}">>),
      Str(<<"{", KeyData, "{", KeyDetail, LitNestedDetail, "}", "}">>),
      Obj(Prop("detail", Str(<<"bad guideline">>))) }

\* an object of the properties that are defined
Defined(props) == Obj([key \in {k \in DOMAIN props : props[k] # Undefined} |-> props[key]])

ResponseOptions ==
    {Undefined} \cup
    {Defined([key \in {"data", "body"} |-> IF key = "data" THEN d ELSE b]) :
        d \in ResponseDataOptions, b \in ResponseBodyOptions}

RequestFailed == <<"Request failed with status code 422">>
TimedOut == <<"timeout of 30000ms exceeded">>

HttpErrors ==
    {ErrorObject("Error", RequestFailed,
                 Defined([key \in {"data", "response", "detail"} |->
                            IF key = "data" THEN d
                            ELSE IF key = "response" THEN r ELSE e]).o) :
        d \in ErrorDataOptions, r \in ResponseOptions, e \in ErrorDetailOptions}
    \cup {ErrorObject("Error", TimedOut, Prop("code", Str(<<"ECONNABORTED">>)))}

NoReply == [kind |-> "none", data |-> Undefined]
Reply(kind, data) == [kind |-> kind, data |-> data]

(***************************************************************************)
(* Initial states: one invocation of one entry point.                      *)
(***************************************************************************)
InitIdle ==
    /\ pc = "start"
    /\ requests = <<>>
    /\ health = "none"
    /\ reply = NoReply
    /\ returnData = <<>>
    /\ thrown = NotThrown
    /\ logs = <<>>
    /\ output = Undefined

\* the specifications that keep no memory
InitNoHeap == heap = <<>>

InitNoEvaluate ==
    /\ guidelineId = ""
    /\ credentials = NoCredentials
    /\ authToken = <<>>

InitNoDeepMerge ==
    /\ target = Undefined
    /\ source = Undefined

InitMerge ==
    /\ node \in {"Numeriquai", "MergeInputs"}
    /\ operation = IF node = "Numeriquai" THEN "flatMerge" ELSE "none"
    /\ numberOfInputs \in NumberOfInputsOptions
    /\ inputData \in UNION {Splits(list, numberOfInputs) : list \in MergeItemLists}
    /\ continueOnFail \in BOOLEAN
    /\ InitNoEvaluate /\ InitNoDeepMerge /\ InitNoHeap /\ InitIdle

\* flatMerge of an item whose value at "a" is a JSON text, alone or after an
\* item that holds an object at "a"
InitParse ==
    /\ node = "Numeriquai"
    /\ operation = "flatMerge"
    /\ numberOfInputs = 2
    /\ inputData \in
         {<<first, <<Item(Obj(Prop("a", Str(text))))>>>> :
            first \in {<<>>, <<Item(Obj(Prop("a", Obj(Prop("b", Num(2))))))>>},
            text \in JsonText}
    /\ continueOnFail = FALSE
    /\ InitNoEvaluate /\ InitNoDeepMerge /\ InitNoHeap /\ InitIdle

InitDeepMerge ==
    /\ node \in {"deepMerge", "MergeInputs_deepMerge"}
    /\ operation = "none"
    /\ numberOfInputs = 0
    /\ inputData = <<>>
    /\ continueOnFail = FALSE
    /\ target \in DeepObjects
    /\ source \in DeepObjects
    /\ InitNoEvaluate /\ InitNoHeap /\ InitIdle

\* the json of the items of a merge in memory: nested objects, JSON texts,
\* an array, a string and null
HeapJson ==
    { Obj(Prop("a", Obj(Prop("a", Num(1))))),
      Obj(Prop("a", Obj(Prop("b", Arr(<<Num(2)>>))))),
      Obj(Prop("a", Str(TextObject))),
      Obj(Prop("b", Str(TextDoubleBraced))),
      Arr(<<Num(1), Obj(Prop("a", Num(1)))>>),
      Str(<<"1", "{">>),
      Null }

HeapItemLists == SeqsUpTo({Item(j) : j \in HeapJson}, MaxItems)

\* the values an invocation is handed: deepMerge's arguments, or the json of
\* the items of the input connections
InputValues ==
    IF node \in {"deepMerge", "MergeInputs_deepMerge"}
    THEN <<target, source>>
    ELSE LET allItems == CollectItems(inputData, numberOfInputs)
         IN  [i \in 1..Len(allItems) |-> allItems[i].json]

\* the memory before the invocation, and the values of the heap handed over
InitialHeap == StoreElements(<<>>, InputValues, <<>>)

InitHeap ==
    /\ \/ /\ node \in {"deepMerge", "MergeInputs_deepMerge"}
          /\ operation = "none"
          /\ numberOfInputs = 0
          /\ inputData = <<>>
          /\ target \in DeepObjects
          /\ source \in DeepObjects
       \/ /\ node \in {"Numeriquai", "MergeInputs"}
          /\ operation = IF node = "Numeriquai" THEN "flatMerge" ELSE "none"
          /\ numberOfInputs \in NumberOfInputsOptions
          /\ inputData \in UNION {Splits(list, numberOfInputs) : list \in HeapItemLists}
          /\ InitNoDeepMerge
    /\ continueOnFail = FALSE
    /\ heap = InitialHeap.heap
    /\ InitNoEvaluate /\ InitIdle

InitEval ==
    /\ node \in {"Numeriquai", "ProcessApplication"}
    /\ operation \in (IF node = "Numeriquai" THEN EvalOperations ELSE {"none"})
    /\ numberOfInputs = 1
    /\ inputData \in {<<items>> : items \in EvalItemLists}
    /\ continueOnFail \in BOOLEAN
    /\ guidelineId \in GuidelineIds
    /\ credentials \in (IF node = "Numeriquai" THEN CredentialsPool ELSE {NoCredentials})
    /\ authToken \in (IF node = "ProcessApplication" THEN Tokens ELSE {<<>>})
    /\ InitNoDeepMerge /\ InitNoHeap /\ InitIdle

(***************************************************************************)
(* The entry points.                                                       *)
(***************************************************************************)
Inputs == <<node, operation, numberOfInputs, inputData, continueOnFail,
            guidelineId, credentials, authToken, target, source>>

\* what an entry point of the value model leaves alone
Kept == <<Inputs, heap>>

\* the invocation ends: it returns items or throws
Finish(outcome) ==
    /\ pc' = "done"
    /\ returnData' = outcome.returnData
    /\ thrown' = outcome.thrown

\* the payload taken from the last item
Input_lastItem(items) == items[Len(items)].json

\* const input = items[0].json
Input(items) == items[1].json

\* a connectivity test whose failure is not caught
HealthCheckError_propagates(outcome) ==
    IF outcome = "failed" THEN ErrorObject("Error", HealthFailed, NoProps) ELSE NoError

\* the try/catch around the connectivity GET: what reaches the outer try
HealthCheckError(outcome) == NoError

\* executeEvaluateRules up to its request
EvaluateRulesStart ==
    LET items == inputData[1] IN
    IF items = <<>>
    THEN /\ Finish(Outcome(<<>>, Throw(ErrName(TypeErrorNoItem), ErrMessage(TypeErrorNoItem))))
         /\ UNCHANGED <<requests, logs>>
    ELSE IF EvaluateRulesValidation(guidelineId, credentials) # NoError
    THEN /\ Finish(EvaluateRulesCatch(EvaluateRulesValidation(guidelineId, credentials),
                                      continueOnFail))
         /\ logs' = logs \o EvaluateRulesErrorLogs(
                                EvaluateRulesValidation(guidelineId, credentials))
         /\ UNCHANGED requests
    ELSE /\ requests' = Send(requests,
                             EvaluateRulesRequest(guidelineId, credentials, Input(items)))
         /\ logs' = logs \o EvaluateRulesRequestLogs(credentials)
         /\ pc' = "awaitPost"
         /\ UNCHANGED <<returnData, thrown>>

\* Numeriquai.execute: the dispatch on "operation", and the operation up to
\* its first await.  Nothing in the try block of executeFlatMerge throws.
NumeriquaiExecute ==
    /\ node = "Numeriquai"
    /\ pc = "start"
    /\ IF operation = "flatMerge"
       THEN /\ Finish(Outcome(executeFlatMerge(inputData, numberOfInputs), NotThrown))
            /\ UNCHANGED <<requests, logs>>
       ELSE IF operation = "evaluateRules"
       THEN EvaluateRulesStart
       ELSE /\ Finish(Outcome(<<>>, Throw("NodeOperationError",
                                          <<"Unknown operation: ", operation>>)))
            /\ UNCHANGED <<requests, logs>>
    /\ UNCHANGED <<Kept, health, reply, output>>

\* executeEvaluateRules: the POST resolves
EvaluateRulesResponse ==
    /\ node = "Numeriquai"
    /\ pc = "awaitPost"
    /\ \E responseData \in Responses :
        /\ reply' = Reply("ok", responseData)
        /\ Finish(Outcome(<<OutputItem(responseData, <<0>>)>>, NotThrown))
    /\ UNCHANGED <<Kept, requests, health, logs, output>>

\* executeEvaluateRules: the POST rejects (a status, the network, the timeout)
EvaluateRulesFailure ==
    /\ node = "Numeriquai"
    /\ pc = "awaitPost"
    /\ \E error \in HttpErrors :
        /\ reply' = Reply("error", error)
        /\ logs' = logs \o EvaluateRulesErrorLogs(error)
        /\ Finish(EvaluateRulesCatch(error, continueOnFail))
    /\ UNCHANGED <<Kept, requests, health, output>>

\* MergeInputs.execute.  Nothing in its try block throws.
MergeInputsExecute ==
    /\ node = "MergeInputs"
    /\ pc = "start"
    /\ Finish(Outcome(MergeInputs_execute(inputData, numberOfInputs), NotThrown))
    /\ UNCHANGED <<Kept, requests, health, reply, logs, output>>

\* ProcessApplication.execute up to the connectivity GET
ProcessApplicationExecute ==
    /\ node = "ProcessApplication"
    /\ pc = "start"
    /\ LET items == inputData[1] IN
       IF items = <<>>
       THEN /\ Finish(Outcome(<<>>, Throw(ErrName(TypeErrorNoItem),
                                          ErrMessage(TypeErrorNoItem))))
            /\ UNCHANGED <<requests, logs>>
       ELSE IF ProcessApplicationValidation(guidelineId, authToken) # NoError
       THEN /\ Finish(ProcessApplicationCatch(
                        ProcessApplicationValidation(guidelineId, authToken),
                        continueOnFail))
            /\ logs' = logs \o ProcessApplicationErrorLogs(
                                   ProcessApplicationValidation(guidelineId, authToken))
            /\ UNCHANGED requests
       ELSE /\ requests' = Send(requests, HealthRequest)
            /\ logs' = logs \o ProcessApplicationRequestLogs(authToken)
            /\ pc' = "awaitHealth"
            /\ UNCHANGED <<returnData, thrown>>
    /\ UNCHANGED <<Kept, health, reply, output>>

\* ProcessApplication.execute: the connectivity GET settles either way; what
\* its try/catch lets through ends the invocation, otherwise the POST goes out
ProcessApplicationHealthSettled ==
    /\ node = "ProcessApplication"
    /\ pc = "awaitHealth"
    /\ \E outcome \in {"ok", "failed"} :
        /\ health' = outcome
        /\ IF HealthCheckError(outcome) # NoError
           THEN /\ Finish(ProcessApplicationCatch(HealthCheckError(outcome),
                                                  continueOnFail))
                /\ logs' = logs \o HealthLogs(outcome)
                              \o ProcessApplicationErrorLogs(HealthCheckError(outcome))
                /\ UNCHANGED requests
           ELSE /\ requests' = Send(requests,
                                    ProcessApplicationRequest(guidelineId, authToken,
                                                              Input(inputData[1])))
                /\ logs' = logs \o HealthLogs(outcome)
                /\ pc' = "awaitPost"
                /\ UNCHANGED <<returnData, thrown>>
    /\ UNCHANGED <<Kept, reply, output>>

\* ProcessApplication.execute: the POST resolves
ProcessApplicationResponse ==
    /\ node = "ProcessApplication"
    /\ pc = "awaitPost"
    /\ \E responseData \in Responses :
        /\ reply' = Reply("ok", responseData)
        /\ IF ResponseLogError(responseData) # NoError
           THEN /\ Finish(ProcessApplicationCatch(ResponseLogError(responseData),
                                                  continueOnFail))
                /\ logs' = logs \o ProcessApplicationErrorLogs(
                                       ResponseLogError(responseData))
           ELSE /\ Finish(Outcome(<<OutputItem(responseData, <<0>>)>>, NotThrown))
                /\ UNCHANGED logs
    /\ UNCHANGED <<Kept, requests, health, output>>

\* ProcessApplication.execute: the POST rejects
ProcessApplicationFailure ==
    /\ node = "ProcessApplication"
    /\ pc = "awaitPost"
    /\ \E error \in HttpErrors :
        /\ reply' = Reply("error", error)
        /\ logs' = logs \o ProcessApplicationErrorLogs(error)
        /\ Finish(ProcessApplicationCatch(error, continueOnFail))
    /\ UNCHANGED <<Kept, requests, health, output>>

\* one application of deepMerge
DeepMergeCall ==
    /\ node \in {"deepMerge", "MergeInputs_deepMerge"}
    /\ pc = "start"
    /\ output' = IF node = "deepMerge" THEN deepMerge(target, source)
                 ELSE MergeInputs_deepMerge(target, source)
    /\ pc' = "done"
    /\ UNCHANGED <<Kept, requests, health, reply, returnData, thrown, logs>>

\* one application of deepMerge, in memory
HeapDeepMergeCall ==
    /\ node \in {"deepMerge", "MergeInputs_deepMerge"}
    /\ pc = "start"
    /\ LET merged == Heap_deepMerge(heap, InitialHeap.elements[1], InitialHeap.elements[2])
       IN  /\ heap' = merged.heap
           /\ output' = Load(merged.heap, merged.val)
    /\ pc' = "done"
    /\ UNCHANGED <<Inputs, requests, health, reply, returnData, thrown, logs>>

\* executeFlatMerge, in memory
HeapFlatMergeExecute ==
    /\ node = "Numeriquai"
    /\ operation = "flatMerge"
    /\ pc = "start"
    /\ LET merged == Heap_executeFlatMerge(heap, InitialHeap.elements)
       IN  /\ heap' = merged.heap
           /\ Finish(Outcome(<<OutputItem(Load(merged.heap, merged.val),
                                          PairedItems(InitialHeap.elements))>>,
                             NotThrown))
    /\ UNCHANGED <<Inputs, requests, health, reply, logs, output>>

\* MergeInputs.execute, in memory
HeapMergeInputsExecute ==
    /\ node = "MergeInputs"
    /\ pc = "start"
    /\ LET merged == Heap_MergeInputs_execute(heap, InitialHeap.elements)
       IN  /\ heap' = merged.heap
           /\ Finish(Outcome(<<OutputItem(Load(merged.heap, merged.val),
                                          PairedItems(InitialHeap.elements))>>,
                             NotThrown))
    /\ UNCHANGED <<Inputs, requests, health, reply, logs, output>>

(***************************************************************************)
(* Specifications.                                                         *)
(***************************************************************************)
NextMerge == NumeriquaiExecute \/ MergeInputsExecute
NextParse == NumeriquaiExecute
NextDeepMerge == DeepMergeCall
NextEval ==
    \/ NumeriquaiExecute
    \/ EvaluateRulesResponse
    \/ EvaluateRulesFailure
    \/ ProcessApplicationExecute
    \/ ProcessApplicationHealthSettled
    \/ ProcessApplicationResponse
    \/ ProcessApplicationFailure

\* the merge entry points on lists of items
SpecMerge == InitMerge /\ [][NextMerge]_vars
\* flatMerge on every JSON text
SpecParse == InitParse /\ [][NextParse]_vars
\* deepMerge on pairs of objects
SpecDeepMerge == InitDeepMerge /\ [][NextDeepMerge]_vars
\* the evaluate entry points
SpecEval == InitEval /\ [][NextEval]_vars

NextHeap == HeapDeepMergeCall \/ HeapFlatMergeExecute \/ HeapMergeInputsExecute
\* deepMerge and the merge entry points on values held in memory
SpecHeap == InitHeap /\ [][NextHeap]_vars

(***************************************************************************)
(* What the properties speak of.                                           *)
(***************************************************************************)
Done == pc = "done"

\* the invocation is one of an evaluate entry point
IsEvaluate ==
    \/ node = "Numeriquai" /\ operation = "evaluateRules"
    \/ node = "ProcessApplication"

IsMerge ==
    \/ node = "Numeriquai" /\ operation = "flatMerge"
    \/ node = "MergeInputs"

\* the API token of the invocation
TokenOf == IF node = "Numeriquai" THEN credentials.apiToken ELSE authToken

ValidationMessages ==
    { <<"Credentials are required">>, <<"Guideline ID is required">>,
      <<"API Key is required">>, <<"Authentication token is required">> }

\* the message the invocation reports: the error item's, or the thrown error's
\* after its prefix
ReportsMessage(m) ==
    \/ /\ thrown = NotThrown
       /\ Len(returnData) = 1
       /\ Get(returnData[1].json, "error") = Str(m)
    \/ /\ thrown = Throw("NodeOperationError", <<"API request failed: ">> \o m)
       /\ returnData = <<>>

IsErrorItem(item) ==
    /\ item.json.t = "obj"
    /\ {"error", "errorType"} \subseteq DOMAIN item.json.o

\* validation was reached and passed
ValidationPassed ==
    /\ inputData[1] # <<>>
    /\ guidelineId # ""
    /\ TokenOf # <<>>
    /\ node = "Numeriquai" => credentials.present

CountMethod(method) == Cardinality({i \in 1..Len(requests) : requests[i].method = method})

\* the items of all input connections, in order
RECURSIVE Flatten(_)
Flatten(seqs) == IF seqs = <<>> THEN <<>> ELSE Head(seqs) \o Flatten(Tail(seqs))

AllInputItems == Flatten(inputData)

\* the json the invocation returns
Result == returnData[1].json

(***************************************************************************)
(* C1: in every evaluate entry point, when guidelineId is empty or the API *)
(* token is empty, the invocation ends in a validation error and no        *)
(* outbound request has been issued at any point of the invocation.        *)
(***************************************************************************)
C1_ValidationErrorBeforeAnyRequest ==
    (IsEvaluate /\ (guidelineId = "" \/ TokenOf = <<>>)) =>
        /\ requests = <<>>
        /\ pc \in {"start", "done"}
        /\ Done => \E m \in ValidationMessages : ReportsMessage(m)

\* the part of C1 that holds on every input: no request goes out
NoRequestWithoutValidParameters ==
    (IsEvaluate /\ (guidelineId = "" \/ TokenOf = <<>>)) =>
        /\ requests = <<>>
        /\ pc \in {"start", "done"}

(***************************************************************************)
(* C2: every error raised during an invocation of an entry point is        *)
(* handled by the continue-on-fail flag alone: with the flag on the        *)
(* invocation returns exactly one error item and does not throw, with the  *)
(* flag off it throws a NodeOperationError; for every input, an empty item *)
(* list and an unknown operation included.                                 *)
(***************************************************************************)
C2_ErrorsHandledByFlagAlone ==
    Done =>
        /\ continueOnFail => thrown = NotThrown /\ Len(returnData) = 1
        /\ thrown # NotThrown => thrown.type = "NodeOperationError" /\ returnData = <<>>

C4_ExactlyOneOutcome ==
    (IsEvaluate /\ Done) =>
        IF reply.kind = "ok"
        THEN /\ thrown = NotThrown
             /\ Len(returnData) = 1
             /\ Result = reply.data
        ELSE IF continueOnFail
        THEN /\ thrown = NotThrown
             /\ Len(returnData) = 1
             /\ IsErrorItem(returnData[1])
        ELSE /\ thrown.type = "NodeOperationError"
             /\ returnData = <<>>

(***************************************************************************)
(* The places a failed request's detail is looked for.                     *)
(***************************************************************************)
\* the value counts as a detail
Yields(v) == v.t = "str" /\ v.s # <<>>

RECURSIVE FirstYield(_)
FirstYield(places) ==
    IF places = <<>> THEN Undefined
    ELSE IF Yields(Head(places)) THEN Head(places)
    ELSE FirstYield(Tail(places))

InErrorData(error) == Get(Get(error, "data"), "detail")
InResponseData(error) == Get(Get(Get(error, "response"), "data"), "detail")
OnError(error) == Get(error, "detail")

\* the detail, then the data.detail, of a parsed body
InParsed(body) == FirstYield(<<Get(body, "detail"), Get(Get(body, "data"), "detail")>>)

\* of the JSON-parsed response.body string
InBodyText(error) ==
    LET body == Get(Get(error, "response"), "body") IN
    IF body.t = "str" /\ JSONparse(body.s).ok
    THEN InParsed(JSONparse(body.s).val)
    ELSE Undefined

\* of response.body: parsed when it is a string, as it is when it is an object
InBody(error) ==
    LET body == Get(Get(error, "response"), "body") IN
    IF body.t = "str" THEN InBodyText(error) ELSE InParsed(body)

\* "{genericMessage}: {detail}" with a detail, {genericMessage} without one
MessageWith(error, detail) ==
    IF Yields(detail) THEN ErrMessage(error) \o <<": ">> \o detail.s ELSE ErrMessage(error)

RequestFailedInEvaluateRules == node = "Numeriquai" /\ Done /\ reply.kind = "error"

(***************************************************************************)
(* C5, as claimed: when the request of executeEvaluateRules fails, the     *)
(* detail is the first that (a) error.data.detail, (b)                     *)
(* error.response.data.detail, (c) the JSON-parsed error.response.body     *)
(* yields, and the reported message is "{genericMessage}: {detail}" with a *)
(* detail and {genericMessage} without one.                                *)
(***************************************************************************)
C5_DetailFromDataResponseBody ==
    RequestFailedInEvaluateRules =>
        ReportsMessage(MessageWith(reply.data,
            FirstYield(<<InErrorData(reply.data), InResponseData(reply.data),
                         InBody(reply.data)>>)))

(***************************************************************************)
(* C5, amended: the detail is the first non-empty one of (a)               *)
(* error.data.detail, (b) error.response.data.detail, (c) error.detail,    *)
(* (d) the detail or data.detail of error.response.body, JSON-parsed when  *)
(* it is a string (an unparsable one is ignored) and read as it is when it *)
(* is an object.  The error item's message is "{genericMessage}: {detail}" *)
(* with a detail and {genericMessage} without one, and its detail field is *)
(* the detail; the thrown error's message is that message after            *)
(* "API request failed: ".                                                 *)
(***************************************************************************)
C5_DetailOrder ==
    RequestFailedInEvaluateRules =>
        LET detail == FirstYield(<<InErrorData(reply.data), InResponseData(reply.data),
                                   OnError(reply.data), InBody(reply.data)>>)
        IN  /\ ReportsMessage(MessageWith(reply.data, detail))
            /\ continueOnFail => Get(Result, "detail") = detail

\* error.detail is reported although the response body holds a detail too
C5_Witness ==
    /\ RequestFailedInEvaluateRules
    /\ ~Yields(InErrorData(reply.data))
    /\ ~Yields(InResponseData(reply.data))
    /\ Yields(OnError(reply.data))
    /\ Yields(InBodyText(reply.data))
    /\ ReportsMessage(MessageWith(reply.data, OnError(reply.data)))

(***************************************************************************)
(* Merging items whose key sets are pairwise disjoint.                     *)
(***************************************************************************)
AllPlainObjects == \A i \in 1..Len(AllInputItems) : IsPlainObject(AllInputItems[i].json)

KeysOf(item) == DOMAIN item.json.o

PairwiseDisjoint ==
    \A i, j \in 1..Len(AllInputItems) :
        i # j => KeysOf(AllInputItems[i]) \cap KeysOf(AllInputItems[j]) = {}

MergedDisjoint == IsMerge /\ Done /\ AllPlainObjects /\ PairwiseDisjoint

UnionOfKeys == UNION {KeysOf(AllInputItems[i]) : i \in 1..Len(AllInputItems)}

RECURSIVE At(_, _)
At(v, path) ==
    IF path = <<>> THEN v
    ELSE IF v.t = "obj" /\ Head(path) \in DOMAIN v.o THEN At(v.o[Head(path)], Tail(path))
    ELSE Undefined

\* every key path the objects of DeepObjects hold, and one key beyond
Paths == UNION {[1..n -> Keys] : n \in {1, 2, 3, 4}}

\* target and source hold plain objects at every proper prefix of the path
MergedAlong(path) ==
    \A n \in 1..(Len(path) - 1) :
        /\ IsPlainObject(At(target, SubSeq(path, 1, n)))
        /\ IsPlainObject(At(source, SubSeq(path, 1, n)))

TextOf == inputData[2][1].json.o["a"].s
Accumulated == IF inputData[1] = <<>> THEN Undefined ELSE inputData[1][1].json.o["a"]

\* what folding value v onto the accumulated value leaves at "a"
FoldedAtA(v) ==
    IF IsPlainObject(v) /\ IsPlainObject(Accumulated)
    THEN /\ IsPlainObject(Result.o["a"])
         /\ DOMAIN Result.o["a"].o = DOMAIN Accumulated.o \cup DOMAIN v.o
         /\ \A key \in DOMAIN v.o : Result.o["a"].o[key] = v.o[key]
         /\ \A key \in DOMAIN Accumulated.o \ DOMAIN v.o :
                Result.o["a"].o[key] = Accumulated.o[key]
    ELSE Result.o["a"] = v

C8_JsonTextParsedBeforeFold ==
    (node = "Numeriquai" /\ operation = "flatMerge" /\ Done) =>
        /\ thrown = NotThrown
        /\ Len(returnData) = 1
        /\ IsPlainObject(Result)
        /\ DOMAIN Result.o = {"a"}
        /\ IF JSONparse(TextOf).ok
           THEN FoldedAtA(JSONparse(TextOf).val)
           ELSE IF DoubleBraced(TextOf) /\ JSONparse(Slice1(TextOf)).ok
           THEN FoldedAtA(JSONparse(Slice1(TextOf)).val)
           ELSE IF DoubleBraced(Trim(TextOf)) /\ JSONparse(Slice1(Trim(TextOf))).ok
           THEN FoldedAtA(JSONparse(Slice1(Trim(TextOf))).val)
           ELSE Result.o["a"] = Str(TextOf)

\* a doubly braced text whose inner object was merged with the accumulated one
C8_Witness ==
    /\ node = "Numeriquai" /\ operation = "flatMerge" /\ Done
    /\ inputData[1] # <<>>
    /\ ~JSONparse(TextOf).ok
    /\ DoubleBraced(TextOf)
    /\ IsPlainObject(Result.o["a"])
    /\ DOMAIN Result.o["a"].o = {"a", "b"}

(***************************************************************************)
(* C9: merge never ends in an error, and an element that is no JSON object *)
(* (null, a number, a boolean, a string, an array) is treated as the empty *)
(* object: it adds no key to and changes no value of the merged result.    *)
(***************************************************************************)
\* the items with every element that is no object replaced by the empty object
RECURSIVE ObjectsOnly(_)
ObjectsOnly(items) ==
    IF items = <<>> THEN <<>>
    ELSE <<IF IsPlainObject(Head(items).json) THEN Head(items) ELSE Item(Obj(NoProps))>>
            \o ObjectsOnly(Tail(items))

C9_NonObjectsAreEmpty ==
    (IsMerge /\ Done) =>
        /\ thrown = NotThrown
        /\ Len(returnData) = 1
        /\ ~IsErrorItem(returnData[1])
        /\ Result = IF node = "MergeInputs"
                    THEN MergeInputsFold(Obj(NoProps), ObjectsOnly(AllInputItems))
                    ELSE FlatMergeFold(Obj(NoProps), ObjectsOnly(AllInputItems))

\* the part of C9 that holds on every input: no merge ends in an error
MergeNeverFails ==
    (IsMerge /\ Done) =>
        /\ thrown = NotThrown
        /\ Len(returnData) = 1
        /\ ~IsErrorItem(returnData[1])

(***************************************************************************)
(* C10: in ProcessApplication.execute a validation error for a missing     *)
(* required parameter (an empty Guideline ID or Authentication Token)      *)
(* always stops the execution: the invocation throws and returns no item,  *)
(* whether or not continue-on-fail is enabled.                             *)
(***************************************************************************)
C10_ValidationAlwaysThrows ==
    (node = "ProcessApplication" /\ Done /\ (guidelineId = "" \/ authToken = <<>>)) =>
        /\ thrown # NotThrown
        /\ returnData = <<>>

(***************************************************************************)
(* What an invocation surfaces: its console lines and its error output.    *)
(***************************************************************************)
\* word occurs in text
Contains(text, word) ==
    \E i \in 1..(Len(text) - Len(word) + 1) : SubSeq(text, i, i + Len(word) - 1) = word

LoggedInFull(word) == \E i \in 1..Len(logs) : Contains(logs[i].text, word)

\* the thrown error's message or a field of an error item holds word
InErrorOutput(word) ==
    \/ Contains(thrown.message, word)
    \/ \E i \in 1..Len(returnData) :
          /\ IsErrorItem(returnData[i])
          /\ Contains(StringsIn(returnData[i].json), word)

(***************************************************************************)
(* C11: the API token is never logged in full and never echoed into error  *)
(* output: for every token, of every length, no console line and no field  *)
(* of an error item or thrown message of an evaluate entry point holds the *)
(* complete token.                                                         *)
(***************************************************************************)
C11_TokenNeverSurfacedInFull ==
    (IsEvaluate /\ TokenOf # <<>>) =>
        /\ ~LoggedInFull(TokenOf)
        /\ ~InErrorOutput(TokenOf)

\* what holds of the token: error output never holds it, executeEvaluateRules
\* never logs it, and ProcessApplication.execute logs its first ten characters,
\* which is all of a token of ten characters or fewer
TokenSurfacedOnlyAsPrefix ==
    (IsEvaluate /\ TokenOf # <<>>) =>
        /\ ~InErrorOutput(TokenOf)
        /\ LoggedInFull(TokenOf) <=>
              /\ node = "ProcessApplication"
              /\ Len(TokenOf) <= TokenPrefixLength
              /\ pc # "start"
              /\ ValidationPassed

(***************************************************************************)
(* The target of the POST of executeEvaluateRules.                         *)
(***************************************************************************)
Occurrences(text, word) == Cardinality({i \in 1..Len(text) : text[i] = word})

\* the base URL of the invocation: the credential's, or the default one
ApiUrlOf == IF credentials.apiUrl # <<>> THEN credentials.apiUrl ELSE DefaultApiUrl

\* every occurrence of pattern replaced
ReplaceAll(text, pattern, by) ==
    [i \in 1..Len(text) |-> IF text[i] = pattern THEN by ELSE text[i]]

PostsOfEvaluateRules ==
    IF node = "Numeriquai" /\ operation = "evaluateRules"
    THEN {i \in 1..Len(requests) : requests[i].method = "POST"}
    ELSE {}

(***************************************************************************)
(* C12: for every credential apiUrl, the POST of executeEvaluateRules goes *)
(* to {apiUrl}/api/v1/audits/ (apiUrl defaulting to                        *)
(* https://api.numeriquai.com when absent or empty) with localhost         *)
(* rewritten to 127.0.0.1, and the target holds no occurrence of the       *)
(* string localhost.                                                       *)
(***************************************************************************)
C12_NoLocalhostInTarget ==
    \A i \in PostsOfEvaluateRules :
        /\ requests[i].url = ReplaceAll(ApiUrlOf \o AuditsPath, "localhost", "127.0.0.1")
        /\ Occurrences(requests[i].url, "localhost") = 0

\* what holds of the target: the first occurrence of localhost is rewritten,
\* so the target holds one occurrence fewer than the endpoint
FirstLocalhostRewritten ==
    \A i \in PostsOfEvaluateRules :
        LET endpoint == ApiUrlOf \o AuditsPath IN
        /\ Occurrences(endpoint, "localhost") = 0 => requests[i].url = endpoint
        /\ Occurrences(endpoint, "localhost") > 0 =>
              /\ Occurrences(requests[i].url, "localhost")
                    = Occurrences(endpoint, "localhost") - 1
              /\ Occurrences(requests[i].url, "127.0.0.1") = 1
              /\ Len(requests[i].url) = Len(endpoint)

(***************************************************************************)
(* The accumulated result of a merge.                                      *)
(***************************************************************************)
\* mergedInputs after the first k items have been folded
MergedAfter(k) ==
    LET items == SubSeq(CollectItems(inputData, numberOfInputs), 1, k)
    IN  IF node = "MergeInputs"
        THEN MergeInputsFold(Obj(NoProps), items)
        ELSE FlatMergeFold(Obj(NoProps), items)

(***************************************************************************)
(* C13: after the left fold of any sequence of items the accumulated merge *)
(* result is a plain object and never an array, at every step of the fold, *)
(* so the normalization of an array result changes nothing and the         *)
(* invocation returns the accumulated object, in both merge entry points.  *)
(***************************************************************************)
C13_FoldNeverArray ==
    IsMerge =>
        /\ \A k \in 0..Len(AllInputItems) :
              /\ IsPlainObject(MergedAfter(k))
              /\ NormalizeArray(MergedAfter(k)) = MergedAfter(k)
        /\ Done => /\ Len(returnData) = 1
                   /\ Result = MergedAfter(Len(AllInputItems))

\* a merge has returned whose last item was an array of two elements: the
\* result is the object of its index keys
C13_Witness ==
    /\ IsMerge /\ Done
    /\ AllInputItems # <<>>
    /\ AllInputItems[Len(AllInputItems)].json.t = "arr"
    /\ Len(AllInputItems[Len(AllInputItems)].json.a) = 2
    /\ IsPlainObject(Result)
    /\ {"0", "1"} \subseteq DOMAIN Result.o

(***************************************************************************)
(* What an evaluate invocation ends in, told from its parameters and from  *)
(* the reply to its POST alone.                                            *)
(***************************************************************************)
ValidationError ==
    IF node = "Numeriquai"
    THEN EvaluateRulesValidation(guidelineId, credentials)
    ELSE ProcessApplicationValidation(guidelineId, authToken)

CatchOf(error) ==
    IF node = "Numeriquai"
    THEN EvaluateRulesCatch(error, continueOnFail)
    ELSE ProcessApplicationCatch(error, continueOnFail)

OutcomeOfReply ==
    IF ValidationError # NoError THEN CatchOf(ValidationError)
    ELSE IF reply.kind = "error" THEN CatchOf(reply.data)
    ELSE IF node = "ProcessApplication" /\ ResponseLogError(reply.data) # NoError
    THEN CatchOf(ResponseLogError(reply.data))
    ELSE Outcome(<<OutputItem(reply.data, <<0>>)>>, NotThrown)

Posts == {i \in 1..Len(requests) : requests[i].method = "POST"}

C16_PostFollowsHealthCheck ==
    (node = "ProcessApplication" /\ ValidationPassed) =>
        /\ pc = "start" => requests = <<>>
        /\ pc = "awaitHealth" => requests = <<HealthRequest>> /\ health = "none"
        /\ pc \in {"awaitPost", "done"} =>
              /\ health \in {"ok", "failed"}
              /\ requests = <<HealthRequest,
                              ProcessApplicationRequest(guidelineId, authToken,
                                                        inputData[1][1].json)>>
        /\ pc = "awaitPost" => returnData = <<>> /\ thrown = NotThrown
        /\ Done => /\ reply # NoReply
                   /\ Outcome(returnData, thrown) = OutcomeOfReply

\* the health check failed, the POST went out after it and its response is
\* what the invocation returned
C16_Witness ==
    /\ node = "ProcessApplication" /\ ValidationPassed /\ Done
    /\ health = "failed"
    /\ Len(requests) = 2
    /\ requests[1].method = "GET" /\ requests[2].method = "POST"
    /\ reply.kind = "ok"
    /\ thrown = NotThrown
    /\ returnData = <<OutputItem(reply.data, <<0>>)>>

(***************************************************************************)
(* C14: a merge invocation leaves its inputs unchanged: after              *)
(* executeFlatMerge or MergeInputs.execute has returned, the json of every *)
(* input item holds, at every depth, the keys and values it held before    *)
(* (string values that were parsed for the merge included), and deepMerge  *)
(* changes neither its target nor its source.  No cell of the memory       *)
(* handed to the invocation is written, and what the invocation computes   *)
(* in memory is what it computes on values.                                *)
(***************************************************************************)
C14_InputsUnchanged ==
    /\ Len(heap) >= Len(InitialHeap.heap)
    /\ SubSeq(heap, 1, Len(InitialHeap.heap)) = InitialHeap.heap
    /\ \A i \in 1..Len(InputValues) :
          Load(heap, InitialHeap.elements[i]) = InputValues[i]
    /\ (Done /\ node = "deepMerge") => output = deepMerge(target, source)
    /\ (Done /\ node = "MergeInputs_deepMerge") =>
          output = MergeInputs_deepMerge(target, source)
    /\ (Done /\ node = "Numeriquai") =>
          returnData = executeFlatMerge(inputData, numberOfInputs)
    /\ (Done /\ node = "MergeInputs") =>
          returnData = MergeInputs_execute(inputData, numberOfInputs)

\* executeFlatMerge has returned the merge of two objects, the second holding
\* a JSON text at a key where the first holds an object: the result holds the
\* merged object there, the second item still holds the text
C14_Witness ==
    /\ node = "Numeriquai" /\ Done
    /\ Len(InputValues) = 2
    /\ Len(heap) > Len(InitialHeap.heap)
    /\ IsPlainObject(InputValues[1]) /\ IsPlainObject(InputValues[2])
    /\ \E key \in DOMAIN InputValues[1].o \cap DOMAIN InputValues[2].o :
          /\ IsPlainObject(InputValues[1].o[key])
          /\ InputValues[2].o[key].t = "str"
          /\ IsPlainObject(Result.o[key])
          /\ DOMAIN Result.o[key].o = DOMAIN InputValues[1].o[key].o \cup {"a"}
          /\ Load(heap, InitialHeap.elements[2]).o[key] = InputValues[2].o[key]

====
